---- MODULE Spec2Model ----
(***************************************************************************)
(* Connect Cidade backend: the solicitation lifecycle (creation with       *)
(* protocol allocation and duplicate detection, deletion, administrative   *)
(* status updates with notification and history) and the records citizens  *)
(* attach to a solicitation (supports, photos, ratings).                   *)
(*                                                                         *)
(* The database (PostgreSQL, READ COMMITTED, database/connection.py) is    *)
(* the only shared state.  Every request handler runs in its own session;  *)
(* a step of the model is one handler's run up to and including its next   *)
(* query or commit, so handlers of different requests interleave between   *)
(* their database statements.  No handler takes a lock.                    *)
(***************************************************************************)
EXTENDS Integers, Sequences, FiniteSets, TLC

\* ------------------------------------------------------------------ bounds
MaxSols == 2        \* solicitations ever inserted (ids 1..MaxSols)
MaxHist == 2        \* history rows, counting the updates under way
MaxHistSeq == 1     \* the same, where the requests run one after the other
AnoInicial == 2025  \* calendar year of the first state
MaxViradas == 1     \* new-year changes of the clock
MaxFotos == 1       \* photo rows, counting the uploads under way, where the
                    \* photo limit is not the subject

\* ------------------------------------------------------- program constants
RAIO_TERRA_METROS == 6371000
RaioPadrao == 50
LarguraSequencia == 5    \* zfill(5): digits of the sequence number
LarguraProtocolo == 10   \* String(10): length of the column protocolo
LimiteFotos == 5         \* if count >= 5: the photos of one solicitation

\* request slots: two requests are in flight at the same time at most
Reqs == {"r1", "r2"}
Ids == 1..MaxSols

\* users of the system: tipo_usuario decides who is an administrator
Cidadaos == {"ana", "bia"}
Administradores == {"adm", "eva"}
Usuarios == Cidadaos \cup Administradores

Categorias == {1, 2}

\* Locations: points on one meridian, given as metres of arc from a
\* reference point (the latitude is pos / RAIO_TERRA_METROS radians).
Locais == {0, 30, 50, 90}

\* StatusSolicitacaoEnum
StatusValidos == {"PENDENTE", "EM_ANALISE", "EM_ANDAMENTO", "RESOLVIDO", "CANCELADO"}

\* HTTP responses of the handlers
Respostas == {"r200", "r400", "r403", "r404", "r409", "r422", "r500"}

\* reasons an administrator gives for a status update
Motivos == {"", "obra iniciada"}

Nenhum == "nenhum"

VARIABLES
  ramo,      \* which side of the unresolved merge in routes/admin.py is built
  ano,       \* datetime.now().year
  sols,      \* table solicitacoes: id -> row
  nextId,    \* next value of the id sequence of solicitacoes
  hist,      \* table atualizacoes_solicitacao, in criado_em order
  notifs,    \* table notificacoes, in criado_em order
  pc,        \* per request slot: position of its handler, or its response
  req,       \* per request slot: the handler's inputs and local variables
  emitidos,  \* every protocol an INSERT has stored so far (the program keeps
             \* no such record: the allocation history, for the properties)
  apoios,    \* table apoios, in criado_em order
  fotos,     \* table fotos, in criado_em order
  avaliacoes \* table avaliacoes, in criado_em order

vars == <<ramo, ano, sols, nextId, hist, notifs, pc, req, emitidos, apoios, fotos,
          avaliacoes>>

ReqNulo ==
  [op |-> Nenhum, usuario |-> Nenhum, sol |-> 0, cat |-> 0, loc |-> 0,
   novo |-> Nenhum, anterior |-> Nenhum, dono |-> Nenhum,
   protocolo |-> <<0, 0>>, gravou |-> FALSE, notif |-> Nenhum,
   existente |-> 0, motivo |-> Nenhum, count |-> 0]

\* ----------------------------------------------------------- pure helpers

RECURSIVE MaxDe(_)
MaxDe(S) ==
  IF S = {} THEN 0
  ELSE LET x == CHOOSE y \in S : TRUE
           m == MaxDe(S \ {x})
       IN IF x > m THEN x ELSE m

Abs(x) == IF x < 0 THEN -x ELSE x

\* Haversine distance in metres.  For two points of the same meridian
\* dlon = 0, so a = sin^2(dlat/2), c = |dlat| and the distance is
\* RAIO_TERRA_METROS * |dlat|.  A place p is the latitude of
\* p / RAIO_TERRA_METROS radians.
Distancia(p, q) == (RAIO_TERRA_METROS * Abs(p - q)) \div RAIO_TERRA_METROS

\* mutant: the query keeps the pending rows only
CandidatasDuplicata_SoPendentes(S, cat) ==
  {i \in DOMAIN S : S[i].cat = cat /\ S[i].status = "PENDENTE"}

\* The rows the duplicate query selects (same category, "exceto resolvidos").
CandidatasDuplicata(S, cat) ==
  {i \in DOMAIN S : S[i].cat = cat /\ S[i].status # "RESOLVIDO"}

\* verificar_duplicata: the ids of the rows the loop would return one of
\* (empty: None).
verificar_duplicata(S, loc, cat, raio_metros) ==
  {i \in CandidatasDuplicata(S, cat) : Distancia(S[i].loc, loc) < raio_metros}

RECURSIVE Digitos(_)
Digitos(n) == IF n < 10 THEN 1 ELSE 1 + Digitos(n \div 10)

RECURSIVE Pot10(_)
Pot10(k) == IF k = 0 THEN 1 ELSE 10 * Pot10(k - 1)

\* len(f"{ano}-{str(n).zfill(5)}"): zfill pads, it never cuts
ComprimentoProtocolo(p) ==
  LET d == Digitos(p[2])
  IN Digitos(p[1]) + 1 + (IF d < LarguraSequencia THEN LarguraSequencia ELSE d)

\* cast(substring(protocolo, 6, 5) as Integer): the first five characters
\* after "YYYY-"
SufixoLido(p) ==
  LET d == Digitos(p[2])
  IN IF d <= LarguraSequencia THEN p[2] ELSE p[2] \div Pot10(d - LarguraSequencia)

\* mutant: the number of this year's rows, + 1
gerar_protocolo_PorContagem(S, a) ==
  <<a, Cardinality({j \in DOMAIN S : S[j].protocolo[1] = a}) + 1>>

\* gerar_protocolo: MAX of the numeric suffix over this year's protocols, + 1
gerar_protocolo(S, a) ==
  LET nums == {SufixoLido(S[i].protocolo) : i \in {j \in DOMAIN S : S[j].protocolo[1] = a}}
      max_resultado == MaxDe(nums)
      numero_maximo == IF max_resultado # 0 THEN max_resultado ELSE 0
  IN <<a, numero_maximo + 1>>

\* mutant: the column without its unique index
ProtocoloLivre_SemIndice(S, p) == TRUE

\* unique=True on solicitacoes.protocolo: the insert of p is accepted
ProtocoloLivre(S, p) == \A i \in DOMAIN S : S[i].protocolo # p

\* mutant: the row is born under analysis
nova_solicitacao_EmAnalise(protocolo, cat, loc, usuario) ==
  [protocolo |-> protocolo, status |-> "EM_ANALISE", cat |-> cat, loc |-> loc,
   usuario |-> usuario]

\* Solicitacao(protocolo=..., status="PENDENTE", ...): the row of a creation
nova_solicitacao(protocolo, cat, loc, usuario) ==
  [protocolo |-> protocolo, status |-> "PENDENTE", cat |-> cat, loc |-> loc,
   usuario |-> usuario]

\* String(10) on solicitacoes.protocolo: PostgreSQL refuses a longer value
CabeNaColuna(p) == ComprimentoProtocolo(p) <= LarguraProtocolo

\* mutant: every caller passes for an administrator
verificar_admin_Todos(u) == TRUE

verificar_admin(u) == u \in Administradores

\* mutant: every status text passes
validar_status_Qualquer(v) == TRUE

\* the check of the requested status against the five names:
\* SolicitacaoUpdate.validar_status on the local side, status_validos in the
\* route on the development side
validar_status(v) == v \in StatusValidos

\* mutant: the error is answered as a success
resposta_de_excecao_Engolida(e) == "r200"

\* an exception raised under the route of the status update: the route
\* catches ValueError (400); anything else leaves the handler (500)
resposta_de_excecao(e) == IF e = "ValueError" THEN "r400" ELSE "r500"

\* SolicitacaoUpdate.descricao_admin: Field(..., min_length=1)
descricao_admin_valida(motivo) == Len(motivo) >= 1

\* rows of a sequence-table that do not belong to solicitation id
SemSol(t, id) == SelectSeq(t, LAMBDA x : x.sol # id)

\* ------------------------------------------------------------------- Init

Init ==
  /\ ramo \in {"development", "local"}
  /\ ano = AnoInicial
  /\ sols = <<>>
  /\ nextId = 1
  /\ hist = <<>>
  /\ notifs = <<>>
  /\ pc = [r \in Reqs |-> "idle"]
  /\ req = [r \in Reqs |-> ReqNulo]
  /\ emitidos = {}
  /\ apoios = <<>>
  /\ fotos = <<>>
  /\ avaliacoes = <<>>

\* The table after 10^5 - 2 or 10^5 - 1 creations of the year: the row
\* with the highest sequence number is there.
InitEsgotamento ==
  /\ ramo \in {"development", "local"}
  /\ ano = AnoInicial
  /\ \E n \in {Pot10(LarguraSequencia) - 2, Pot10(LarguraSequencia) - 1} :
        /\ sols = (1 :> [protocolo |-> <<AnoInicial, n>>, status |-> "PENDENTE",
                         cat |-> 1, loc |-> 0, usuario |-> "ana"])
        /\ emitidos = {<<AnoInicial, n>>}
  /\ nextId = 2
  /\ hist = <<>>
  /\ notifs = <<>>
  /\ pc = [r \in Reqs |-> "idle"]
  /\ req = [r \in Reqs |-> ReqNulo]
  /\ apoios = <<>>
  /\ fotos = <<>>
  /\ avaliacoes = <<>>

\* ---------------------------------------------------------------- actions

\* The clock passes into the next calendar year.
VirarAno ==
  /\ ano < AnoInicial + MaxViradas
  /\ ano' = ano + 1
  /\ UNCHANGED <<ramo, emitidos, apoios, fotos, avaliacoes, sols, nextId, hist, notifs, pc, req>>

\* The response of slot r is delivered; the slot is free again.
Liberar(r) ==
  /\ pc[r] \in Respostas
  /\ pc' = [pc EXCEPT ![r] = "idle"]
  /\ req' = [req EXCEPT ![r] = ReqNulo]
  /\ UNCHANGED <<ramo, emitidos, apoios, fotos, avaliacoes, ano, sols, nextId, hist, notifs>>

\* POST /api/solicitacoes, up to the duplicate query: 409 on a duplicate.
\* The 409 carries a fixed detail text; existente, the id of a solicitation
\* in the response, stays 0 (none).
criar_solicitacao(r, u, cat, loc) ==
  /\ pc[r] = "idle"
  /\ nextId <= MaxSols
  /\ LET duplicata == verificar_duplicata(sols, loc, cat, RaioPadrao)
     IN pc' = [pc EXCEPT ![r] = IF duplicata # {} THEN "r409" ELSE "protocolo"]
  /\ req' = [req EXCEPT ![r] =
               [ReqNulo EXCEPT !.op = "criar", !.usuario = u, !.cat = cat, !.loc = loc]]
  /\ UNCHANGED <<ramo, emitidos, apoios, fotos, avaliacoes, ano, sols, nextId, hist, notifs>>

\* ... the MAX query of gerar_protocolo
criar_protocolo(r) ==
  /\ pc[r] = "protocolo"
  /\ req' = [req EXCEPT ![r].protocolo = gerar_protocolo(sols, ano)]
  /\ pc' = [pc EXCEPT ![r] = "inserir"]
  /\ UNCHANGED <<ramo, emitidos, apoios, fotos, avaliacoes, ano, sols, nextId, hist, notifs>>

\* ... db.add + db.commit: the INSERT, refused by the unique index on a
\* protocol that is already there (IntegrityError) and by the column on a
\* protocol that is too long (DataError); neither is caught: 500
criar_inserir(r) ==
  /\ pc[r] = "inserir"
  /\ IF CabeNaColuna(req[r].protocolo) /\ ProtocoloLivre(sols, req[r].protocolo)
     THEN /\ sols' = (nextId :> nova_solicitacao(req[r].protocolo, req[r].cat,
                                                 req[r].loc, req[r].usuario)) @@ sols
          /\ nextId' = nextId + 1
          /\ emitidos' = emitidos \cup {req[r].protocolo}
          /\ pc' = [pc EXCEPT ![r] = "r200"]
     ELSE /\ pc' = [pc EXCEPT ![r] = "r500"]
          /\ UNCHANGED <<sols, nextId, emitidos>>
  /\ UNCHANGED <<ramo, ano, hist, notifs, req, apoios, fotos, avaliacoes>>

\* DELETE /api/solicitacoes/{id}: only the creator; the foreign keys of
\* atualizacoes_solicitacao, notificacoes, apoios, fotos and avaliacoes are
\* ON DELETE CASCADE.
deletar_solicitacao(r, u, id) ==
  /\ pc[r] = "idle"
  /\ req' = [req EXCEPT ![r] = [ReqNulo EXCEPT !.op = "deletar", !.usuario = u, !.sol = id]]
  /\ IF id \notin DOMAIN sols
     THEN /\ pc' = [pc EXCEPT ![r] = "r404"]
          /\ UNCHANGED <<sols, hist, notifs, apoios, fotos, avaliacoes>>
     ELSE IF sols[id].usuario # u
     THEN /\ pc' = [pc EXCEPT ![r] = "r403"]
          /\ UNCHANGED <<sols, hist, notifs, apoios, fotos, avaliacoes>>
     ELSE /\ sols' = [i \in DOMAIN sols \ {id} |-> sols[i]]
          /\ hist' = SemSol(hist, id)
          /\ notifs' = SemSol(notifs, id)
          /\ apoios' = SemSol(apoios, id)
          /\ fotos' = SemSol(fotos, id)
          /\ avaliacoes' = SemSol(avaliacoes, id)
          /\ pc' = [pc EXCEPT ![r] = "r200"]
  /\ UNCHANGED <<ramo, emitidos, ano, nextId>>

\* status updates that have passed validation and not answered yet
EmCurso == Cardinality({q \in Reqs : pc[q] \in {"dev_commit", "gravar", "notificar", "historico", "admin"}})

\* PUT /api/admin/solicitacoes/{id}/status, up to the load of the row:
\* 403 for a caller that is not an administrator, 404 for a missing row,
\* 400 for a status outside the five valid values.  The row loaded here
\* stays in the session; the handler reads its status and usuario_id from
\* it later without reloading.  On the local side the body is a
\* SolicitacaoUpdate, validated before the handler runs: 422 for a
\* descricao_admin shorter than one character or a status that is none of
\* the five; on the development side descricao is a plain string parameter.  (limite bounds the model: a new
\* update is admitted while the history rows and the updates under way are
\* fewer, and the notifications too.)
atualizar_status_solicitacao_admin(r, u, id, novo, motivo, limite) ==
  /\ pc[r] = "idle"
  /\ Len(hist) + EmCurso < limite
  /\ Len(notifs) < limite
  /\ IF ramo = "local" /\ (~descricao_admin_valida(motivo) \/ ~validar_status(novo))
     THEN /\ pc' = [pc EXCEPT ![r] = "r422"]
          /\ req' = [req EXCEPT ![r] =
                       [ReqNulo EXCEPT !.op = "status", !.usuario = u, !.sol = id, !.novo = novo,
                                       !.motivo = motivo]]
     ELSE IF ~verificar_admin(u)
     THEN /\ pc' = [pc EXCEPT ![r] = "r403"]
          /\ req' = [req EXCEPT ![r] =
                       [ReqNulo EXCEPT !.op = "status", !.usuario = u, !.sol = id, !.novo = novo,
                                       !.motivo = motivo]]
     ELSE IF id \notin DOMAIN sols
     THEN /\ pc' = [pc EXCEPT ![r] = "r404"]
          /\ req' = [req EXCEPT ![r] =
                       [ReqNulo EXCEPT !.op = "status", !.usuario = u, !.sol = id, !.novo = novo,
                                       !.motivo = motivo]]
     ELSE /\ pc' = [pc EXCEPT ![r] =
                      IF ~validar_status(novo) THEN "r400"
                      ELSE IF ramo = "development" THEN "dev_commit" ELSE "gravar"]
          /\ req' = [req EXCEPT ![r] =
                       [ReqNulo EXCEPT !.op = "status", !.usuario = u, !.sol = id, !.novo = novo,
                                       !.motivo = motivo,
                                       !.anterior = sols[id].status,
                                       !.dono = sols[id].usuario]]
  /\ UNCHANGED <<ramo, emitidos, apoios, fotos, avaliacoes, ano, sols, nextId, hist, notifs>>

\* development side of the merge: the history row (with the administrator;
\* por as in registrar_historico)
\* and the new status are written in one commit; no notification.  An
\* UPDATE or INSERT for a row deleted meanwhile fails, and so does a commit
\* the storage refuses (falha): nothing is written, 500.
dev_commit(r, falha) ==
  /\ pc[r] = "dev_commit"
  /\ IF ~falha /\ req[r].sol \in DOMAIN sols
     THEN /\ hist' = Append(hist, [sol |-> req[r].sol, admin |-> req[r].usuario,
                                   ant |-> req[r].anterior, novo |-> req[r].novo,
                                   descricao |-> req[r].motivo,
                                   por |-> req[r].usuario])
          /\ sols' = [sols EXCEPT ![req[r].sol].status = req[r].novo]
          /\ req' = [req EXCEPT ![r].gravou = TRUE]
          /\ pc' = [pc EXCEPT ![r] = "r200"]
     ELSE /\ pc' = [pc EXCEPT ![r] = resposta_de_excecao("SQLAlchemyError")]
          /\ UNCHANGED <<hist, sols, req>>
  /\ UNCHANGED <<ramo, emitidos, apoios, fotos, avaliacoes, ano, nextId, notifs>>

\* local side of the merge, atualizar_status_e_notificar PASSO 4:
\* solicitacao_crud.atualizar writes the new status and commits (None, and
\* nothing written, for a row deleted meanwhile).
gravar_status(r) ==
  /\ pc[r] = "gravar"
  /\ IF req[r].sol \in DOMAIN sols
     THEN /\ sols' = [sols EXCEPT ![req[r].sol].status = req[r].novo]
          /\ req' = [req EXCEPT ![r].gravou = TRUE]
     ELSE UNCHANGED <<sols, req>>
  /\ pc' = [pc EXCEPT ![r] = "notificar"]
  /\ UNCHANGED <<ramo, emitidos, apoios, fotos, avaliacoes, ano, nextId, hist, notifs>>

\* PASSO 6: notificacao_crud.criar inserts the notification and commits.
\* The insert can fail (falha: the storage refuses it; or the foreign key
\* to a solicitation deleted meanwhile); the exception is not caught by the
\* service and the route catches ValueError only: 500.
criar_notificacao(r, falha) ==
  /\ pc[r] = "notificar"
  /\ IF falha \/ req[r].sol \notin DOMAIN sols
     THEN /\ pc' = [pc EXCEPT ![r] = resposta_de_excecao("SQLAlchemyError")]
          /\ req' = [req EXCEPT ![r].notif = "falhou"]
          /\ UNCHANGED notifs
     ELSE /\ notifs' = Append(notifs, [sol |-> req[r].sol, usuario |-> req[r].dono,
                                       ant |-> req[r].anterior, novo |-> req[r].novo])
          /\ req' = [req EXCEPT ![r].notif = "criada"]
          /\ pc' = [pc EXCEPT ![r] = "historico"]
  /\ UNCHANGED <<ramo, emitidos, apoios, fotos, avaliacoes, ano, sols, nextId, hist>>

\* PASSO 7: the history row, administrador_id = None, and commit.  The
\* commit can fail (falha: the storage refuses it; or the foreign key to a
\* solicitation deleted meanwhile); the exception is not caught by the
\* service, and what PASSO 4 and PASSO 6 committed stays.  (por is no column
\* of the table: it keeps the caller of the request that wrote the row, for
\* the properties.)
registrar_historico(r, falha) ==
  /\ pc[r] = "historico"
  /\ IF ~falha /\ req[r].sol \in DOMAIN sols
     THEN /\ hist' = Append(hist, [sol |-> req[r].sol, admin |-> Nenhum,
                                   ant |-> req[r].anterior, novo |-> req[r].novo,
                                   descricao |-> req[r].motivo,
                                   por |-> req[r].usuario])
          /\ pc' = [pc EXCEPT ![r] = "admin"]
     ELSE /\ pc' = [pc EXCEPT ![r] = resposta_de_excecao("SQLAlchemyError")]
          /\ UNCHANGED hist
  /\ UNCHANGED <<ramo, emitidos, apoios, fotos, avaliacoes, ano, sols, nextId, notifs, req>>

\* mutant: the most recent row of the whole table
MaisRecente_DaTabela(h, id) == Len(h)

\* index in hist of the most recent row of solicitation id (0: none)
MaisRecente(h, id) == MaxDe({i \in DOMAIN h : h[i].sol = id})

\* back in the route: the most recent history row of the solicitation gets
\* administrador_id = admin_id
registrar_admin(r) ==
  /\ pc[r] = "admin"
  /\ LET atualizacao_recente == MaisRecente(hist, req[r].sol)
     IN hist' = IF atualizacao_recente # 0
                THEN [hist EXCEPT ![atualizacao_recente].admin = req[r].usuario]
                ELSE hist
  /\ pc' = [pc EXCEPT ![r] = "r200"]
  /\ UNCHANGED <<ramo, emitidos, apoios, fotos, avaliacoes, ano, sols, nextId, notifs, req>>

\* obter_historico_admin: the rows of a solicitation, most recent first
RECURSIVE Inverter(_)
Inverter(s) == IF s = <<>> THEN <<>> ELSE Append(Inverter(Tail(s)), Head(s))

obter_historico(h, id) == Inverter(SelectSeq(h, LAMBDA x : x.sol = id))

\* mutant: the table without its unique constraint
ApoioLivre_SemRestricao(A, id, u) == TRUE

\* UniqueConstraint('solicitacao_id', 'usuario_id') on apoios: the insert of
\* (id, u) is accepted
ApoioLivre(A, id, u) == \A i \in DOMAIN A : ~(A[i].sol = id /\ A[i].usuario = u)

\* POST /api/solicitacoes/{id}/apoiar, up to the query for the caller's
\* support: 404 for a missing solicitation, 409 for a support that is there.
apoiar_solicitacao(r, u, id) ==
  /\ pc[r] = "idle"
  /\ req' = [req EXCEPT ![r] = [ReqNulo EXCEPT !.op = "apoiar", !.usuario = u, !.sol = id]]
  /\ pc' = [pc EXCEPT ![r] =
              IF id \notin DOMAIN sols THEN "r404"
              ELSE IF \E i \in DOMAIN apoios : apoios[i].sol = id /\ apoios[i].usuario = u
              THEN "r409"
              ELSE "apoio_inserir"]
  /\ UNCHANGED <<ramo, emitidos, ano, sols, nextId, hist, notifs, apoios, fotos, avaliacoes>>

\* ... db.add + db.commit: the INSERT, refused by the unique constraint
\* and by the foreign key to a solicitation deleted meanwhile
\* (IntegrityError); it is not caught: 500
apoiar_inserir(r) ==
  /\ pc[r] = "apoio_inserir"
  /\ IF req[r].sol \in DOMAIN sols /\ ApoioLivre(apoios, req[r].sol, req[r].usuario)
     THEN /\ apoios' = Append(apoios, [sol |-> req[r].sol, usuario |-> req[r].usuario])
          /\ pc' = [pc EXCEPT ![r] = "r200"]
     ELSE /\ pc' = [pc EXCEPT ![r] = "r500"]
          /\ UNCHANGED apoios
  /\ UNCHANGED <<ramo, emitidos, ano, sols, nextId, hist, notifs, req, fotos, avaliacoes>>

\* a sequence without its element at position k
SemPosicao(t, k) == [i \in 1..(Len(t) - 1) |-> IF i < k THEN t[i] ELSE t[i + 1]]

\* DELETE /api/solicitacoes/{id}/apoiar: 404 without a support of the
\* caller, else the row .first() returned is deleted.
remover_apoio(r, u, id) ==
  /\ pc[r] = "idle"
  /\ req' = [req EXCEPT ![r] = [ReqNulo EXCEPT !.op = "remover_apoio", !.usuario = u, !.sol = id]]
  /\ LET meus == {i \in DOMAIN apoios : apoios[i].sol = id /\ apoios[i].usuario = u}
     IN IF meus = {}
        THEN /\ pc' = [pc EXCEPT ![r] = "r404"]
             /\ UNCHANGED apoios
        ELSE /\ \E k \in meus : apoios' = SemPosicao(apoios, k)
             /\ pc' = [pc EXCEPT ![r] = "r200"]
  /\ UNCHANGED <<ramo, emitidos, ano, sols, nextId, hist, notifs, fotos, avaliacoes>>

\* db.query(Foto).filter_by(solicitacao_id=...).count()
ContarFotos(F, id) == Cardinality({i \in DOMAIN F : F[i].sol = id})

\* uploads that have passed the count check and not answered yet
FotosEmCurso == Cardinality({q \in Reqs : pc[q] = "foto_salvar"})

\* POST /api/solicitacoes/{id}/fotos, up to the count query: 404 for a
\* missing solicitation, 403 for a caller who is not its creator, 400 for a
\* file that is no valid image, 409 at the limit.  (limite bounds the model:
\* a new upload is admitted while the photo rows and the uploads under way
\* are fewer.)
upload_foto(r, u, id, valido, limite) ==
  /\ pc[r] = "idle"
  /\ Len(fotos) + FotosEmCurso < limite
  /\ IF id \notin DOMAIN sols
     THEN /\ pc' = [pc EXCEPT ![r] = "r404"]
          /\ req' = [req EXCEPT ![r] = [ReqNulo EXCEPT !.op = "foto", !.usuario = u, !.sol = id]]
     ELSE IF sols[id].usuario # u
     THEN /\ pc' = [pc EXCEPT ![r] = "r403"]
          /\ req' = [req EXCEPT ![r] = [ReqNulo EXCEPT !.op = "foto", !.usuario = u, !.sol = id]]
     ELSE IF ~valido
     THEN /\ pc' = [pc EXCEPT ![r] = "r400"]
          /\ req' = [req EXCEPT ![r] = [ReqNulo EXCEPT !.op = "foto", !.usuario = u, !.sol = id]]
     ELSE LET count == ContarFotos(fotos, id)
          IN /\ pc' = [pc EXCEPT ![r] = IF count >= LimiteFotos THEN "r409" ELSE "foto_salvar"]
             /\ req' = [req EXCEPT ![r] = [ReqNulo EXCEPT !.op = "foto", !.usuario = u,
                                                          !.sol = id, !.count = count]]
  /\ UNCHANGED <<ramo, emitidos, ano, sols, nextId, hist, notifs, apoios, fotos, avaliacoes>>

\* ... processar_imagem, db.add + db.commit, with ordem = count + 1.  An
\* exception (falha: the image cannot be processed or stored; or the foreign
\* key to a solicitation deleted meanwhile) is caught: rollback and 500.
upload_salvar(r, falha) ==
  /\ pc[r] = "foto_salvar"
  /\ IF falha \/ req[r].sol \notin DOMAIN sols
     THEN /\ pc' = [pc EXCEPT ![r] = "r500"]
          /\ UNCHANGED fotos
     ELSE /\ fotos' = Append(fotos, [sol |-> req[r].sol, ordem |-> req[r].count + 1])
          /\ pc' = [pc EXCEPT ![r] = "r200"]
  /\ UNCHANGED <<ramo, emitidos, ano, sols, nextId, hist, notifs, req, apoios, avaliacoes>>

\* DELETE /api/solicitacoes/{id}/fotos/{foto_id}: 404, 403 as in the
\* upload, 404 for a photo that is not one of the solicitation.  (A photo is
\* named by its position k in the table.)
deletar_foto(r, u, id, k) ==
  /\ pc[r] = "idle"
  /\ req' = [req EXCEPT ![r] = [ReqNulo EXCEPT !.op = "deletar_foto", !.usuario = u, !.sol = id]]
  /\ IF id \notin DOMAIN sols
     THEN /\ pc' = [pc EXCEPT ![r] = "r404"]
          /\ UNCHANGED fotos
     ELSE IF sols[id].usuario # u
     THEN /\ pc' = [pc EXCEPT ![r] = "r403"]
          /\ UNCHANGED fotos
     ELSE IF ~(k \in DOMAIN fotos /\ fotos[k].sol = id)
     THEN /\ pc' = [pc EXCEPT ![r] = "r404"]
          /\ UNCHANGED fotos
     ELSE /\ fotos' = SemPosicao(fotos, k)
          /\ pc' = [pc EXCEPT ![r] = "r200"]
  /\ UNCHANGED <<ramo, emitidos, ano, sols, nextId, hist, notifs, apoios, avaliacoes>>

\* solicitacao.status.name: the column status is a String(50), the value
\* read from it a str, and a str has no attribute name
status_name(valor) == "AttributeError"

\* status_permitidos
StatusAvaliaveis == {"RESOLVIDO", "CANCELADO"}

\* POST /api/solicitacoes/{id}/avaliar: 404 for a missing solicitation;
\* then the status check, which reads solicitacao.status.name: the
\* AttributeError is not caught, 500.  The statements after it (409 for a
\* status outside status_permitidos, 403 for a caller who is not the
\* creator, 409 for a rating of the caller that is there, the INSERT) are
\* those of the handler.
criar_avaliacao(r, u, id, nota) ==
  /\ pc[r] = "idle"
  /\ req' = [req EXCEPT ![r] = [ReqNulo EXCEPT !.op = "avaliar", !.usuario = u, !.sol = id]]
  /\ IF id \notin DOMAIN sols
     THEN /\ pc' = [pc EXCEPT ![r] = "r404"]
          /\ UNCHANGED avaliacoes
     ELSE IF status_name(sols[id].status) = "AttributeError"
     THEN /\ pc' = [pc EXCEPT ![r] = "r500"]
          /\ UNCHANGED avaliacoes
     ELSE IF status_name(sols[id].status) \notin StatusAvaliaveis
     THEN /\ pc' = [pc EXCEPT ![r] = "r409"]
          /\ UNCHANGED avaliacoes
     ELSE IF sols[id].usuario # u
     THEN /\ pc' = [pc EXCEPT ![r] = "r403"]
          /\ UNCHANGED avaliacoes
     ELSE IF \E i \in DOMAIN avaliacoes : avaliacoes[i].sol = id /\ avaliacoes[i].usuario = u
     THEN /\ pc' = [pc EXCEPT ![r] = "r409"]
          /\ UNCHANGED avaliacoes
     ELSE /\ avaliacoes' = Append(avaliacoes, [sol |-> id, usuario |-> u, nota |-> nota])
          /\ pc' = [pc EXCEPT ![r] = "r200"]
  /\ UNCHANGED <<ramo, emitidos, ano, sols, nextId, hist, notifs, apoios, fotos>>

\* DELETE /api/solicitacoes/{id}/avaliacao: 404 without a rating of the
\* caller, else it is deleted.
deletar_minha_avaliacao(r, u, id) ==
  /\ pc[r] = "idle"
  /\ req' = [req EXCEPT ![r] = [ReqNulo EXCEPT !.op = "deletar_avaliacao", !.usuario = u, !.sol = id]]
  /\ LET minhas == {i \in DOMAIN avaliacoes : avaliacoes[i].sol = id /\ avaliacoes[i].usuario = u}
     IN IF minhas = {}
        THEN /\ pc' = [pc EXCEPT ![r] = "r404"]
             /\ UNCHANGED avaliacoes
        ELSE /\ \E k \in minhas : avaliacoes' = SemPosicao(avaliacoes, k)
             /\ pc' = [pc EXCEPT ![r] = "r200"]
  /\ UNCHANGED <<ramo, emitidos, ano, sols, nextId, hist, notifs, apoios, fotos>>

\* the marks of a rating
Notas == {1, 5}


\* ---------------------------------------------------------- specification

\* The steps of creation in the slots Rs, the inputs drawn from the given sets.
PassosCriacao(Rs, Us, Cats, Locs) ==
  \/ \E r \in Rs, u \in Us, cat \in Cats, loc \in Locs :
        criar_solicitacao(r, u, cat, loc)
  \/ \E r \in Rs : criar_protocolo(r)
  \/ \E r \in Rs : criar_inserir(r)

\* Deletion in the slots Rs, the inputs drawn from the given set.
PassosDelecao(Rs, Us) ==
  \E r \in Rs, u \in Us, id \in Ids : deletar_solicitacao(r, u, id)

\* The steps of the status update in the slots Rs, the inputs drawn from the
\* given sets (Falhas: whether the commit of a history row can be refused).
PassosStatus(Rs, Us, Novos, Ms, limite, Falhas) ==
  \/ \E r \in Rs, u \in Us, id \in Ids, novo \in Novos, motivo \in Ms :
        atualizar_status_solicitacao_admin(r, u, id, novo, motivo, limite)
  \/ \E r \in Rs, falha \in Falhas : dev_commit(r, falha)
  \/ \E r \in Rs : gravar_status(r)
  \/ \E r \in Rs, falha \in BOOLEAN : criar_notificacao(r, falha)
  \/ \E r \in Rs, falha \in Falhas : registrar_historico(r, falha)
  \/ \E r \in Rs : registrar_admin(r)

\* Support and its removal in the slots Rs.
PassosApoio(Rs, Us) ==
  \/ \E r \in Rs, u \in Us, id \in Ids : apoiar_solicitacao(r, u, id)
  \/ \E r \in Rs : apoiar_inserir(r)
  \/ \E r \in Rs, u \in Us, id \in Ids : remover_apoio(r, u, id)

\* Photo upload and deletion in the slots Rs.
PassosFoto(Rs, Us, limite) ==
  \/ \E r \in Rs, u \in Us, id \in Ids, valido \in BOOLEAN :
        upload_foto(r, u, id, valido, limite)
  \/ \E r \in Rs, falha \in BOOLEAN : upload_salvar(r, falha)
  \/ \E r \in Rs, u \in Us, id \in Ids, k \in 1..(LimiteFotos + 1) : deletar_foto(r, u, id, k)

\* Rating and its deletion in the slots Rs.
PassosAvaliacao(Rs, Us) ==
  \/ \E r \in Rs, u \in Us, id \in Ids, nota \in Notas : criar_avaliacao(r, u, id, nota)
  \/ \E r \in Rs, u \in Us, id \in Ids : deletar_minha_avaliacao(r, u, id)

Entrega == \E r \in Reqs : Liberar(r)

\* Every operation, every input.
Next ==
  \/ VirarAno
  \/ Entrega
  \/ PassosCriacao(Reqs, Cidadaos, Categorias, Locais)
  \/ PassosDelecao(Reqs, Cidadaos)
  \/ PassosStatus(Reqs, Usuarios, StatusValidos \cup {"FECHADO"}, Motivos, MaxHist, BOOLEAN)
  \/ PassosApoio(Reqs, Cidadaos)
  \/ PassosFoto(Reqs, Cidadaos, LimiteFotos + 2)
  \/ PassosAvaliacao(Reqs, Cidadaos)

Spec == Init /\ [][Next]_vars

\* Creation and deletion by two citizens, two requests at a time, across a
\* change of year.
NextCriacao ==
  \/ VirarAno
  \/ Entrega
  \/ PassosCriacao(Reqs, Cidadaos, {1}, {0, 50})
  \/ PassosDelecao(Reqs, Cidadaos)

SpecCriacao == Init /\ [][NextCriacao]_vars

\* The same by one citizen.
NextCriacaoCurta ==
  \/ VirarAno
  \/ Entrega
  \/ PassosCriacao(Reqs, {"ana"}, {1}, {0, 50})
  \/ PassosDelecao(Reqs, {"ana"})

SpecCriacaoCurta == Init /\ [][NextCriacaoCurta]_vars

\* Status updates of the solicitations of one citizen at one place, two
\* requests at a time.
NextStatus ==
  \/ Entrega
  \/ PassosCriacao(Reqs, {"ana"}, {1}, {0})
  \/ PassosDelecao(Reqs, {"ana"})
  \/ PassosStatus(Reqs, {"ana", "adm"}, {"PENDENTE", "EM_ANALISE", "RESOLVIDO"},
                  {"obra iniciada"}, MaxHist, {FALSE})

SpecStatus == Init /\ [][NextStatus]_vars

\* The same, one request after the other, with every valid status.
NextStatusSeq ==
  \/ Entrega
  \/ PassosCriacao({"r1"}, {"ana"}, {1}, {0})
  \/ PassosDelecao({"r1"}, {"ana"})
  \/ PassosStatus({"r1"}, {"ana", "adm"}, StatusValidos, {"obra iniciada"}, MaxHist, {FALSE})

SpecStatusSeq == Init /\ [][NextStatusSeq]_vars

\* One request after the other: creation at places inside, at and outside
\* the radius of each other, in two categories, with deletions and status
\* updates in between.
NextSequencial ==
  \/ Entrega
  \/ PassosCriacao({"r1"}, {"ana"}, Categorias, {0, 30})
  \/ PassosDelecao({"r1"}, {"ana"})
  \/ PassosStatus({"r1"}, {"adm"}, {"EM_ANDAMENTO", "RESOLVIDO", "CANCELADO"},
                  {"obra iniciada"}, MaxHistSeq, {FALSE})

SpecSequencial == Init /\ [][NextSequencial]_vars

\* The same in one category, the updates leading to a status under way or
\* resolved.
NextSequencialCurta ==
  \/ Entrega
  \/ PassosCriacao({"r1"}, {"ana"}, {1}, {0, 30})
  \/ PassosDelecao({"r1"}, {"ana"})
  \/ PassosStatus({"r1"}, {"adm"}, {"EM_ANDAMENTO", "RESOLVIDO"},
                  {"obra iniciada"}, MaxHistSeq, {FALSE})

SpecSequencialCurta == Init /\ [][NextSequencialCurta]_vars

\* Creation and deletion, one request after the other, across a change of
\* year.
NextCriacaoSeq ==
  \/ VirarAno
  \/ Entrega
  \/ PassosCriacao({"r1"}, Cidadaos, Categorias, {0, 50, 90})
  \/ PassosDelecao({"r1"}, Cidadaos)

SpecCriacaoSeq == Init /\ [][NextCriacaoSeq]_vars

\* Creation and deletion at the end of the year's sequence numbers.
NextEsgotamento ==
  \/ Entrega
  \/ PassosCriacao(Reqs, Cidadaos, Categorias, {0, 50, 90})
  \/ PassosDelecao(Reqs, Cidadaos)

SpecEsgotamento == InitEsgotamento /\ [][NextEsgotamento]_vars

\* Two administrators update the status of one citizen's solicitation, two
\* requests at a time.
NextDoisAdmins ==
  \/ Entrega
  \/ PassosCriacao({"r1"}, {"ana"}, {1}, {0})
  \/ PassosStatus(Reqs, Administradores, {"EM_ANALISE", "EM_ANDAMENTO"},
                  {"obra iniciada"}, MaxHist, {FALSE})

SpecDoisAdmins == Init /\ [][NextDoisAdmins]_vars

\* Status updates with and without a reason, one request after the other.
NextMotivo ==
  \/ Entrega
  \/ PassosCriacao({"r1"}, {"ana"}, {1}, {0})
  \/ PassosDelecao({"r1"}, {"ana"})
  \/ PassosStatus({"r1"}, {"ana", "adm"}, {"EM_ANALISE", "CANCELADO"}, Motivos, MaxHist, {FALSE})

SpecMotivo == Init /\ [][NextMotivo]_vars

\* Every operation on the solicitations of one citizen at one place, one
\* request after the other: creation, deletion, status update, support by another
\* citizen, photo upload and deletion, rating.
NextOperacoes ==
  \/ Entrega
  \/ PassosCriacao({"r1"}, {"ana"}, {1}, {0})
  \/ PassosDelecao({"r1"}, {"ana"})
  \/ PassosStatus({"r1"}, {"ana", "adm"}, {"RESOLVIDO"}, {"obra iniciada"}, MaxHistSeq, {FALSE})
  \/ PassosApoio({"r1"}, {"bia"})
  \/ PassosFoto({"r1"}, {"ana"}, MaxFotos)
  \/ PassosAvaliacao({"r1"}, {"ana"})

SpecOperacoes == Init /\ [][NextOperacoes]_vars

\* Creation and deletion, one request after the other, across a change of
\* year, on a table whose rows are fewer than its highest sequence number.
NextAlocacao ==
  \/ VirarAno
  \/ Entrega
  \/ PassosCriacao({"r1"}, Cidadaos, Categorias, {0, 90})
  \/ PassosDelecao({"r1"}, Cidadaos)

SpecAlocacao == InitEsgotamento /\ [][NextAlocacao]_vars

\* Status updates by an administrator, one request after the other, where
\* the storage can refuse the commit of a history row.
NextFalha ==
  \/ Entrega
  \/ PassosCriacao({"r1"}, {"ana"}, {1}, {0})
  \/ PassosDelecao({"r1"}, {"ana"})
  \/ PassosStatus({"r1"}, {"adm"}, {"EM_ANALISE", "RESOLVIDO"}, {"obra iniciada"},
                  MaxHist, BOOLEAN)

SpecFalha == Init /\ [][NextFalha]_vars

\* An administrator updates the status of two solicitations of one citizen,
\* two requests at a time.
NextDuasSolicitacoes ==
  \/ Entrega
  \/ PassosCriacao({"r1"}, {"ana"}, Categorias, {0})
  \/ PassosStatus(Reqs, {"adm"}, {"EM_ANALISE"}, {"obra iniciada"}, MaxHist, {FALSE})

SpecDuasSolicitacoes == Init /\ [][NextDuasSolicitacoes]_vars

\* Status updates that ask for one of the five statuses or for another
\* text, one request after the other.
NextStatusPedido ==
  \/ Entrega
  \/ PassosCriacao({"r1"}, {"ana"}, {1}, {0})
  \/ PassosDelecao({"r1"}, {"ana"})
  \/ PassosStatus({"r1"}, {"adm"}, {"EM_ANALISE", "CANCELADO", "FECHADO", ""},
                  {"obra iniciada"}, MaxHist, {FALSE})

SpecStatusPedido == Init /\ [][NextStatusPedido]_vars

\* A citizen supports the solicitation of another and removes the support,
\* two requests at a time.
NextApoio ==
  \/ Entrega
  \/ PassosCriacao({"r1"}, {"ana"}, {1}, {0})
  \/ PassosDelecao({"r1"}, {"ana"})
  \/ PassosApoio(Reqs, {"bia"})

SpecApoio == Init /\ [][NextApoio]_vars

\* A citizen uploads photos to a solicitation and deletes them, two requests
\* at a time.
NextFotos ==
  \/ Entrega
  \/ PassosCriacao({"r1"}, {"ana"}, {1}, {0})
  \/ PassosFoto(Reqs, {"ana"}, LimiteFotos + 2)

SpecFotos == Init /\ [][NextFotos]_vars

\* Ratings of the solicitations of one citizen, by the citizen and by
\* another, in every status, one request after the other.
NextAvaliacao ==
  \/ Entrega
  \/ PassosCriacao({"r1"}, {"ana"}, {1}, {0})
  \/ PassosStatus({"r1"}, {"adm"}, {"EM_ANALISE", "RESOLVIDO", "CANCELADO"},
                  {"obra iniciada"}, MaxHistSeq, {FALSE})
  \/ PassosAvaliacao({"r1"}, Cidadaos)

SpecAvaliacao == Init /\ [][NextAvaliacao]_vars

\* ------------------------------------------------------------ properties

\* positions of a status update between its validation and its response
EmVoo == {"dev_commit", "gravar", "notificar", "historico", "admin"}

\* the statuses of an open report
Abertos == {"PENDENTE", "EM_ANALISE", "EM_ANDAMENTO"}

\* the transition table of the lifecycle state machine
TabelaLegal ==
  {<<"PENDENTE", "EM_ANALISE">>, <<"PENDENTE", "CANCELADO">>,
   <<"EM_ANALISE", "EM_ANDAMENTO">>, <<"EM_ANALISE", "CANCELADO">>,
   <<"EM_ANDAMENTO", "RESOLVIDO">>, <<"EM_ANDAMENTO", "CANCELADO">>}

\* C1: in every reachable state no two persisted solicitations have the
\* same protocol, also when creations run concurrently and after deletions.
ProtocoloUnico ==
  \A i \in DOMAIN sols : \A j \in DOMAIN sols :
     i # j => sols[i].protocolo # sols[j].protocolo

\* C1, witness: two creations raced to the same sequence number; one row is
\* persisted with it and the other creation was refused by the unique index.
ProtocoloUnico_Witness ==
  \E r \in Reqs :
     /\ req[r].op = "criar"
     /\ pc[r] = "r500"
     /\ \E i \in DOMAIN sols : sols[i].protocolo = req[r].protocolo

\* C2: a status update from a current status to another, requested status
\* passes validation only for a pair of the transition table; for every other
\* such pair it is rejected (and so writes nothing).
TabelaTotal ==
  \A r \in Reqs :
     (/\ req[r].op = "status"
      /\ pc[r] \in EmVoo \cup {"r200"}
      /\ req[r].anterior # req[r].novo)
     => <<req[r].anterior, req[r].novo>> \in TabelaLegal

\* C3: for a solicitation with no status update under way, the history (most
\* recent first) is an unbroken chain from PENDENTE to the current status:
\* the oldest row starts at PENDENTE, each row starts where the row before it
\* ended, the newest row ends at the stored status; with no row the status is
\* still PENDENTE.
CadeiaAuditoria ==
  \A id \in DOMAIN sols :
     (\A q \in Reqs : ~(req[q].op = "status" /\ req[q].sol = id /\ pc[q] \in EmVoo))
     => LET H == obter_historico(hist, id)
            N == Len(H)
        IN IF N = 0 THEN sols[id].status = "PENDENTE"
           ELSE /\ H[N].ant = "PENDENTE"
                /\ \A k \in 1..(N - 1) : H[k].ant = H[k + 1].novo
                /\ H[1].novo = sols[id].status

\* C4: status updates of one solicitation are serialized: when an update
\* writes the status, the status stored at that moment is the one the update
\* loaded (the one its history row records as status_anterior).
SerializadoPorId ==
  [][\A r \in Reqs :
       (/\ pc[r] \in {"gravar", "dev_commit"}
        /\ pc'[r] # pc[r]
        /\ req[r].sol \in DOMAIN sols)
       => sols[req[r].sol].status = req[r].anterior]_vars

\* C5: the duplicate detector considers exactly the open reports of the
\* candidate's category: a creation is refused as a duplicate only if an open
\* report of its category lies within the radius, and it is refused whenever
\* one lies closer than the radius.
DetectorSoAbertas ==
  [][\A r \in Reqs :
       (pc[r] = "idle" /\ pc'[r] \in {"r409", "protocolo"})
       => /\ (pc'[r] = "r409"
                => \E i \in DOMAIN sols :
                      /\ sols[i].cat = req'[r].cat
                      /\ sols[i].status \in Abertos
                      /\ Distancia(sols[i].loc, req'[r].loc) <= RaioPadrao)
          /\ ((\E i \in DOMAIN sols :
                      /\ sols[i].cat = req'[r].cat
                      /\ sols[i].status \in Abertos
                      /\ Distancia(sols[i].loc, req'[r].loc) < RaioPadrao)
                => pc'[r] = "r409")]_vars

\* C6: a creation with the location and the category of a persisted
\* solicitation that is still open is refused as a duplicate (409) and
\* persists nothing.
CriarIdenticoRejeitado ==
  [][\A r \in Reqs :
       (/\ pc[r] = "idle"
        /\ pc'[r] \in {"r409", "protocolo"}
        /\ \E i \in DOMAIN sols :
              /\ sols[i].cat = req'[r].cat
              /\ sols[i].loc = req'[r].loc
              /\ sols[i].status \in Abertos)
       => (pc'[r] = "r409" /\ sols' = sols /\ nextId' = nextId)]_vars

\* C6, witness: a second creation at the place and in the category of a
\* solicitation that is open (under way) has been answered 409, and that
\* solicitation is the only one there.
CriarIdenticoRejeitado_Witness ==
  \E r \in Reqs :
     /\ req[r].op = "criar"
     /\ pc[r] = "r409"
     /\ \E i \in DOMAIN sols :
           /\ sols[i].cat = req[r].cat
           /\ sols[i].loc = req[r].loc
           /\ sols[i].status = "EM_ANDAMENTO"
           /\ \A j \in DOMAIN sols :
                 (sols[j].cat = req[r].cat /\ sols[j].loc = req[r].loc) => j = i

\* C7: a status update that has written the status and has answered has
\* emitted its notification; every notification is addressed to the reporter
\* of the solicitation it refers to.
NotificacaoPorTransicao ==
  /\ \A r \in Reqs :
        (req[r].op = "status" /\ pc[r] \in Respostas /\ req[r].gravou)
           => req[r].notif = "criada"
  /\ \A k \in DOMAIN notifs :
        /\ notifs[k].sol \in DOMAIN sols
        /\ notifs[k].usuario = sols[notifs[k].sol].usuario

\* C8: a status update whose notification failed after the status was
\* written still answers success, and its history row is present.
FalhaDeNotificacaoTolerada ==
  \A r \in Reqs :
     (/\ req[r].op = "status"
      /\ req[r].gravou
      /\ req[r].notif = "falhou"
      /\ req[r].sol \in DOMAIN sols)
     => /\ pc[r] \in EmVoo \cup {"r200"}
        /\ pc[r] = "r200"
              => \E k \in DOMAIN hist :
                    /\ hist[k].sol = req[r].sol
                    /\ hist[k].ant = req[r].anterior
                    /\ hist[k].novo = req[r].novo

\* C9: a status update requesting the status the solicitation already has is
\* rejected: it never passes validation, and no history row and no
\* notification goes from a status to itself.
AutoTransicaoRejeitada ==
  /\ \A r \in Reqs :
        (req[r].op = "status" /\ req[r].anterior = req[r].novo)
           => pc[r] \notin EmVoo \cup {"r200"}
  /\ \A k \in DOMAIN hist : hist[k].ant # hist[k].novo
  /\ \A k \in DOMAIN notifs : notifs[k].ant # notifs[k].novo

\* C10: RESOLVIDO and CANCELADO are terminal: the status of a solicitation
\* that is RESOLVIDO or CANCELADO never changes again.
TerminaisFinais ==
  [][\A id \in DOMAIN sols :
       (sols[id].status \in {"RESOLVIDO", "CANCELADO"} /\ id \in DOMAIN sols')
       => sols'[id].status = sols[id].status]_vars

\* C11: protocol allocation is monotonic, deletions included: with the
\* requests run one after the other, the sequence number of every newly
\* stored protocol is greater than that of every protocol stored before in
\* the same year, whether its solicitation still exists or was deleted.
AlocacaoMonotonica ==
  [][\A r \in Reqs :
       (pc[r] = "inserir" /\ pc'[r] = "r200")
       => \A p \in emitidos :
             p[1] = req[r].protocolo[1] => req[r].protocolo[2] > p[2]]_vars

\* C12: a creation whose INSERT is refused by the unique index on the
\* protocol does not fail on that first refusal: it goes back to the
\* allocation to recompute the sequence number.
RetentaAposConflito ==
  [][\A r \in Reqs :
       (/\ pc[r] = "inserir"
        /\ pc'[r] # pc[r]
        /\ CabeNaColuna(req[r].protocolo)
        /\ ~ProtocoloLivre(sols, req[r].protocolo))
       => pc'[r] = "protocolo"]_vars

\* C13: the allocator never returns a protocol whose sequence number has
\* more than five digits (past 99999 the allocation fails instead), and no
\* such protocol is persisted.
SequenciaLimitada ==
  /\ \A r \in Reqs :
        pc[r] = "inserir" => Digitos(req[r].protocolo[2]) <= LarguraSequencia
  /\ \A i \in DOMAIN sols : Digitos(sols[i].protocolo[2]) <= LarguraSequencia

\* C14: for every query point and category: if an open solicitation of the
\* category lies within the radius of the point, the search returns a match;
\* if every open solicitation of the category lies strictly outside the
\* radius, it returns none.  (A solicitation at exactly the radius is left
\* open here: "within" is read as closer than the radius, the reading under
\* which the search has the least to deliver.)
BuscaProximaAberta ==
  \A loc \in Locais : \A cat \in Categorias :
     LET abertas == {i \in DOMAIN sols :
                        sols[i].cat = cat /\ sols[i].status \in Abertos}
         achadas == verificar_duplicata(sols, loc, cat, RaioPadrao)
     IN /\ (\E i \in abertas : Distancia(sols[i].loc, loc) < RaioPadrao)
              => achadas # {}
        /\ (\A i \in abertas : Distancia(sols[i].loc, loc) > RaioPadrao)
              => achadas = {}

\* C15: a creation refused as a duplicate answers with the id of an existing
\* solicitation, which is open, of the candidate's category and within the
\* radius of the candidate's place.
DuplicataLevaId ==
  [][\A r \in Reqs :
       (pc[r] = "idle" /\ pc'[r] = "r409")
       => /\ req'[r].existente \in DOMAIN sols
          /\ sols[req'[r].existente].cat = req'[r].cat
          /\ sols[req'[r].existente].status \in Abertos
          /\ Distancia(sols[req'[r].existente].loc, req'[r].loc) <= RaioPadrao]_vars

\* C16: a creation changes the stored data only by its successful INSERT,
\* which adds exactly one solicitation, in status PENDENTE, and leaves every
\* other solicitation, the history and the notifications as they were.
CriacaoSoInsere ==
  [][\A r \in Reqs :
       (pc[r] \in {"idle", "protocolo", "inserir"} /\ pc'[r] # pc[r]
          /\ req'[r].op = "criar")
       => /\ hist' = hist
          /\ notifs' = notifs
          /\ IF pc'[r] = "r200"
             THEN /\ \A i \in DOMAIN sols : i \in DOMAIN sols' /\ sols'[i] = sols[i]
                  /\ Cardinality(DOMAIN sols') = Cardinality(DOMAIN sols) + 1
                  /\ \A i \in DOMAIN sols' \ DOMAIN sols :
                        /\ sols'[i].status = "PENDENTE"
                        /\ sols'[i].cat = req[r].cat
                        /\ sols'[i].loc = req[r].loc
                        /\ sols'[i].usuario = req[r].usuario
             ELSE sols' = sols]_vars

\* C16, witness: a creation has succeeded next to another solicitation that
\* has a history row and is no longer pending.
CriacaoSoInsere_Witness ==
  \E r \in Reqs :
     /\ req[r].op = "criar"
     /\ pc[r] = "r200"
     /\ Cardinality(DOMAIN sols) = 2
     /\ Len(hist) > 0
     /\ \E i \in DOMAIN sols : sols[i].status # "PENDENTE"

\* C17: history rows are append-only: no step changes a field of a row that
\* exists or removes it.
HistoricoSoCresce ==
  [][/\ Len(hist') >= Len(hist)
     /\ \A k \in DOMAIN hist : hist'[k] = hist[k]]_vars

\* C18: every history row records who performed its transition: once no
\* status update of the solicitation is under way, the administrator of
\* each of its rows is the caller of the request that wrote the row, also
\* when two administrators update the solicitation concurrently.
AtorRegistrado ==
  \A k \in DOMAIN hist :
     (\A q \in Reqs :
         ~(req[q].op = "status" /\ req[q].sol = hist[k].sol /\ pc[q] \in EmVoo))
     => hist[k].admin = hist[k].por

MotivoObrigatorio ==
  /\ \A r \in Reqs :
        (req[r].op = "status" /\ req[r].motivo = "")
           => pc[r] \notin EmVoo \cup {"r200"}
  /\ \A k \in DOMAIN hist : hist[k].descricao # ""

AlocacaoPeloMaximo ==
  [][\A r \in Reqs :
        pc[r] = "protocolo" /\ pc'[r] = "inserir" =>
          LET doAno == {sols[i].protocolo[2] :
                          i \in {j \in DOMAIN sols : sols[j].protocolo[1] = ano}}
              n == req'[r].protocolo[2]
          IN /\ req'[r].protocolo[1] = ano
             /\ IF doAno = {} THEN n = 1
                ELSE (n - 1) \in doAno /\ \A m \in doAno : m <= n - 1]_vars

\* a number allocated in a year whose rows are fewer than their highest
\* sequence number
AlocacaoPeloMaximo_Witness ==
  \E r \in Reqs :
    /\ pc[r] = "inserir"
    /\ req[r].protocolo[1] = ano
    /\ LET doAno == {j \in DOMAIN sols : sols[j].protocolo[1] = ano}
       IN /\ doAno # {}
          /\ req[r].protocolo[2] > Cardinality(doAno) + 1
          /\ \E j \in doAno : sols[j].protocolo[2] + 1 = req[r].protocolo[2]

\* C23: in every state, a notification that announces a status change of a
\* solicitation is there only if the history row of that change is there:
\* within one update the history row is written before the notification.
AuditoriaAntesDaNotificacao ==
  \A k \in DOMAIN notifs :
    notifs[k].ant # notifs[k].novo =>
    \E j \in DOMAIN hist :
      /\ hist[j].sol = notifs[k].sol
      /\ hist[j].ant = notifs[k].ant
      /\ hist[j].novo = notifs[k].novo

\* C24: when the write of the history row fails after the status write of
\* the same update succeeded, the failure is answered as an error (500), not
\* as a success, and the status stays as the update wrote it.
FalhaDoHistoricoPropagada ==
  [][\A r \in Reqs :
        (pc[r] = "historico" /\ pc'[r] \notin {"historico", "admin"} /\ req[r].gravou) =>
          /\ pc'[r] = "r500"
          /\ sols' = sols
          /\ hist' = hist
          /\ req[r].sol \in DOMAIN sols => sols'[req[r].sol].status = req[r].novo]_vars

\* an update answered 500 for its history row, the new status in the table
FalhaDoHistoricoPropagada_Witness ==
  \E r \in Reqs :
    /\ req[r].op = "status" /\ pc[r] = "r500"
    /\ req[r].gravou /\ req[r].notif = "criada"
    /\ req[r].novo # req[r].anterior
    /\ req[r].sol \in DOMAIN sols
    /\ sols[req[r].sol].status = req[r].novo
    /\ \A j \in DOMAIN hist : hist[j].sol # req[r].sol

\* the rows of a sequence-table that belong to solicitation id
DaSol(t, id) == SelectSeq(t, LAMBDA x : x.sol = id)

\* C25: a step of a status update of solicitation A leaves every other
\* solicitation B as it is: the row of B with its status, the history rows
\* of B with their administrators, and the notifications about B.
TransicoesIndependentes ==
  [][\A r \in Reqs :
        (pc'[r] # pc[r] /\ (req[r].op = "status" \/ req'[r].op = "status")) =>
          LET A == IF req[r].op = "status" THEN req[r].sol ELSE req'[r].sol
          IN \A B \in Ids \ {A} :
               /\ (B \in DOMAIN sols) = (B \in DOMAIN sols')
               /\ B \in DOMAIN sols => sols'[B] = sols[B]
               /\ DaSol(hist', B) = DaSol(hist, B)
               /\ DaSol(notifs', B) = DaSol(notifs, B)]_vars

\* an update of one solicitation names its administrator while the most
\* recent history row of the table is another solicitation's
TransicoesIndependentes_Witness ==
  \E r \in Reqs :
    /\ req[r].op = "status" /\ pc[r] = "r200" /\ ramo = "local"
    /\ Len(hist) >= 2
    /\ hist[Len(hist)].sol # req[r].sol
    /\ hist[Len(hist)].admin = Nenhum
    /\ \E j \in DOMAIN hist : hist[j].sol = req[r].sol /\ hist[j].admin = req[r].usuario

\* the five statuses of the lifecycle
CincoStatus == {"PENDENTE", "EM_ANALISE", "EM_ANDAMENTO", "RESOLVIDO", "CANCELADO"}

\* C26: the status of every stored solicitation is one of the five, and a
\* status update that asks for any other value is answered with a rejection
\* at once, no table written.
StatusSempreValido ==
  [][/\ \A id \in DOMAIN sols' : sols'[id].status \in CincoStatus
     /\ \A j \in DOMAIN hist' : hist'[j].novo \in CincoStatus
     /\ \A r \in Reqs :
          (pc[r] = "idle" /\ req'[r].op = "status" /\ req'[r].novo \notin CincoStatus) =>
            /\ pc'[r] \in {"r400", "r403", "r404", "r422"}
            /\ UNCHANGED <<sols, hist, notifs>>]_vars

\* an update asking for a text that is no status was answered, the
\* solicitation it names stored with the status it had
StatusSempreValido_Witness ==
  \E r \in Reqs :
    /\ req[r].op = "status" /\ req[r].novo = "FECHADO"
    /\ pc[r] \in Respostas
    /\ req[r].sol \in DOMAIN sols
    /\ sols[req[r].sol].status = "EM_ANALISE"

\* C27: in every state, no two stored open solicitations of the same
\* category lie less than the radius of 50 m from each other.
AbertasSeparadas ==
  \A i \in DOMAIN sols, j \in DOMAIN sols :
    (i # j /\ sols[i].cat = sols[j].cat
       /\ sols[i].status \in Abertos /\ sols[j].status \in Abertos) =>
      ~(Distancia(sols[i].loc, sols[j].loc) < RaioPadrao)

FotosNoLimite ==
  \A id \in DOMAIN sols : ContarFotos(fotos, id) <= 5

\* C30: a rating is stored only by a request of the reporter for a
\* solicitation whose status is RESOLVIDO or CANCELADO at that time; a rating
\* request for a stored solicitation in another status or by another caller
\* is rejected (409, 403) and stores no rating.
AvaliacaoSoDeEncerrada ==
  [][\A r \in Reqs :
        (pc[r] = "idle" /\ req'[r].op = "avaliar" /\ req'[r].sol \in DOMAIN sols) =>
          LET id == req'[r].sol
              u == req'[r].usuario
          IN IF sols[id].status \in {"RESOLVIDO", "CANCELADO"} /\ sols[id].usuario = u
             THEN \/ avaliacoes' = avaliacoes
                  \/ /\ Len(avaliacoes') = Len(avaliacoes) + 1
                     /\ avaliacoes'[Len(avaliacoes')].sol = id
                     /\ avaliacoes'[Len(avaliacoes')].usuario = u
             ELSE pc'[r] \in {"r403", "r409"} /\ avaliacoes' = avaliacoes]_vars
====
